---- MODULE Spec2Model ----
(***************************************************************************)
(* ReUntangle: the dependency-graph analysis engine.                       *)
(*                                                                         *)
(* An analysis run takes the parsed units (ComponentInfo), builds the      *)
(* dependency graph (GraphBuilder.buildGraph, with calculateDepths),       *)
(* converts it to the React Flow form (buildReactFlowGraph, with           *)
(* detectCircularDependencies), lays it out (applyLayout, tree mode) and   *)
(* then serves focused-subgraph requests                                   *)
(* (ScouterModeService.extractRelatedNodes).  The units come from          *)
(* ComponentParser.parseFile, which also scores each unit's complexity;    *)
(* a node's colour and the unused filter depend on its file name.          *)
(*                                                                         *)
(* Ids are the positions 1..n of the units in the input list; 0 stands for *)
(* JavaScript's undefined (a failed Map.get / Array.find).                 *)
(***************************************************************************)
EXTENDS Integers, Sequences, FiniteSets, TLC

VARIABLES pc, components, graph, circularNodes, flowNodes, flowEdges,
          layouted, request, related,
          files, fileIndex,
          metrics, complexity,
          flowNode, filterOptions, style, visible,
          layoutQueue, layoutLevels,
          state, pending, applied, lastCall, replaced

\* the scanned files and the position of the parse loop in them
parserVars == <<files, fileIndex>>

\* the metrics of one unit and its complexity score
scoreVars == <<metrics, complexity>>

\* one flow node, the filter options, the node's style and whether it is shown
styleVars == <<flowNode, filterOptions, style, visible>>

\* the queue and the level table of the tree layout's breadth-first loop
layoutVars == <<layoutQueue, layoutLevels>>

\* the scouter hook: its committed state, the state updates that wait for
\* the next render, the updates the last render ran, what the last call of
\* one of its callbacks did, and how often its nodes and edges were replaced
hookVars == <<state, pending, applied, lastCall, replaced>>

vars == <<pc, components, graph, circularNodes, flowNodes, flowEdges,
          layouted, request, related, parserVars, scoreVars, styleVars,
          layoutVars, hookVars>>

----------------------------------------------------------------------------
(* Bounds of the model *)

\* the longest unit list that is analysed
MaxUnits == 3

\* the largest total number of dependency-name entries in a unit list
MaxRefs == 3

\* the most nodes of a displayed graph
MaxNodes == 3

\* the most files of a scanned project
MaxFiles == 3

\* the most import declarations of a file, and the most specifiers of one
MaxImports == 1

MaxSpecifiers == 1

\* the most declarations of a file, and the most calls in the body of one
MaxDeclarations == 1

MaxCalls == 2

\* the most edges of a graph shown in the graph view
MaxEdges == 3

\* the most state updates queued between two renders
MaxPending == 2

\* the most replacements of the nodes and edges of a mounted graph view
MaxReplacements == 1

\* the identifiers units are declared under and refer to each other by
NameOrder == <<"A", "B", "C">>

Names == {NameOrder[i] : i \in 1..Len(NameOrder)}

\* every identifier of the model, in a fixed order: the PascalCase names of
\* NameOrder, then names of the form use[A-Z]..., then a camelCase name
AllNameOrder == NameOrder \o <<"useA", "useB", "helper">>

AllNames == {AllNameOrder[i] : i \in 1..Len(AllNameOrder)}

----------------------------------------------------------------------------
(* Generic helpers *)

Max2(a, b) == IF a >= b THEN a ELSE b

Range(s) == {s[i] : i \in 1..Len(s)}

\* Array.prototype.indexOf, 0-based, -1 when absent
RECURSIVE IndexOfFrom(_, _, _)
IndexOfFrom(s, x, i) ==
  IF i > Len(s) THEN -1
  ELSE IF s[i] = x THEN i - 1
  ELSE IndexOfFrom(s, x, i + 1)

IndexOf(s, x) == IndexOfFrom(s, x, 1)

----------------------------------------------------------------------------
(* The inputs: unit lists.  Names are opaque identifiers, so lists are      *)
(* enumerated up to renaming: the first unit is called NameOrder[1] and a   *)
(* unit either reuses a name already taken or takes the next unused one.    *)
(* A name no unit carries is an unresolvable dependency name.               *)

\* the position of a name in NameOrder
nameIndex(name) == CHOOSE j \in 1..Len(NameOrder) : NameOrder[j] = name

\* the ways to name n units
UnitNames(n) ==
  {nm \in [1..n -> Names] :
     \A i \in 1..n :
       \/ nameIndex(nm[i]) = 1
       \/ \E h \in 1..(i - 1) : nameIndex(nm[h]) >= nameIndex(nm[i]) - 1}

\* the ways to deal k dependency-name entries, in order, to n units
Owners(k, n) ==
  {o \in [1..k -> 1..n] : \A i \in 1..k, j \in 1..k : i <= j => o[i] <= o[j]}

\* the entries dealt to unit i
entriesOf(flat, owner, i) ==
  LET mine == {j \in 1..Len(flat) : owner[j] = i}
      first == IF mine = {} THEN 1 ELSE CHOOSE j \in mine : \A h \in mine : j <= h
  IN SubSeq(flat, first, first + Cardinality(mine) - 1)

\* ComponentInfo: the id is unique per unit (componentParser: `${path}:${name}`)
makeComponents(nm, flat, owner) ==
  [i \in DOMAIN nm |-> [id |-> i, name |-> nm[i], dependencies |-> entriesOf(flat, owner, i)]]

----------------------------------------------------------------------------
(* GraphBuilder.buildGraph *)

\* "Create nodes": one DependencyNode per unit, keyed by id, in input order
createNodes(comps) ==
  [i \in {comps[k].id : k \in 1..Len(comps)} |->
     [id |-> i, dependencies |-> <<>>, dependents |-> <<>>, depth |-> 0]]

\* "Build component name to ID mapping": Map.set in input order, so a later
\* unit of the same name replaces an earlier one; 0 where the name is unset
RECURSIVE buildNameToId(_, _, _)
buildNameToId(comps, i, m) ==
  IF i > Len(comps) THEN m
  ELSE buildNameToId(comps, i + 1, [m EXCEPT ![comps[i].name] = comps[i].id])

\* the mapping when a name already set is left alone (the first unit wins)
RECURSIVE buildNameToIdKeepFirst(_, _, _)
buildNameToIdKeepFirst(comps, i, m) ==
  IF i > Len(comps) THEN m
  ELSE buildNameToIdKeepFirst(comps, i + 1,
         IF m[comps[i].name] = 0 THEN [m EXCEPT ![comps[i].name] = comps[i].id] ELSE m)

nameToIdOfKeepFirst(comps) == buildNameToIdKeepFirst(comps, 1, [n \in AllNames |-> 0])

nameToIdOf(comps) == buildNameToId(comps, 1, [n \in AllNames |-> 0])

\* edges.find((e) => e.from === from && e.to === to): index of the first
\* match, 0 when there is none
findEdge(edges, from, to) ==
  LET hits == {i \in 1..Len(edges) : edges[i].from = from /\ edges[i].to = to}
  IN IF hits = {} THEN 0 ELSE CHOOSE i \in hits : \A j \in hits : i <= j

\* the edge list when the self-reference guard of addDependency is missing
addDependencyNoSelfGuard(g, nameToId, cid, depName) ==
  LET depId == nameToId[depName]
      k == findEdge(g.edges, cid, depId)
      n1 == [g.nodes EXCEPT ![cid].dependencies = Append(@, depId)]
      n2 == [n1 EXCEPT ![depId].dependents = Append(@, cid)]
  IN IF depId # 0
     THEN [nodes |-> n2,
           edges |-> IF k # 0
                     THEN [g.edges EXCEPT ![k].strength = @ + 1]
                     ELSE Append(g.edges, [from |-> cid, to |-> depId, strength |-> 1])]
     ELSE g

\* the body of the inner loop when the reverse link is not recorded
addDependencyNoDependents(g, nameToId, cid, depName) ==
  LET depId == nameToId[depName]
      k == findEdge(g.edges, cid, depId)
      n1 == [g.nodes EXCEPT ![cid].dependencies = Append(@, depId)]
  IN IF depId # 0 /\ depId # cid
     THEN [nodes |-> n1,
           edges |-> IF k # 0
                     THEN [g.edges EXCEPT ![k].strength = @ + 1]
                     ELSE Append(g.edges, [from |-> cid, to |-> depId, strength |-> 1])]
     ELSE g

\* the body of the inner loop when a repeated reference pushes a second edge
addDependencyNoUpsert(g, nameToId, cid, depName) ==
  LET depId == nameToId[depName]
      n1 == [g.nodes EXCEPT ![cid].dependencies = Append(@, depId)]
      n2 == [n1 EXCEPT ![depId].dependents = Append(@, cid)]
  IN IF depId # 0 /\ depId # cid
     THEN [nodes |-> n2,
           edges |-> Append(g.edges, [from |-> cid, to |-> depId, strength |-> 1])]
     ELSE g

\* the body of the inner loop when the `depId &&` test is missing: a name
\* that resolves to no unit still pushes an edge, to undefined
addDependencyKeepUnresolved(g, nameToId, cid, depName) ==
  LET depId == nameToId[depName]
      k == findEdge(g.edges, cid, depId)
      n1 == [g.nodes EXCEPT ![cid].dependencies = Append(@, depId)]
      n2 == [n1 EXCEPT ![depId].dependents = Append(@, cid)]
      edges1 == IF k # 0
                THEN [g.edges EXCEPT ![k].strength = @ + 1]
                ELSE Append(g.edges, [from |-> cid, to |-> depId, strength |-> 1])
  IN IF depId = 0 THEN [nodes |-> g.nodes, edges |-> edges1]
     ELSE IF depId # cid THEN [nodes |-> n2, edges |-> edges1]
     ELSE g

\* the body of the inner loop of "Create edges and update dependencies":
\* one dependency name of the unit cid
addDependency(g, nameToId, cid, depName) ==
  LET depId == nameToId[depName]
      k == findEdge(g.edges, cid, depId)
      n1 == [g.nodes EXCEPT ![cid].dependencies = Append(@, depId)]
      n2 == [n1 EXCEPT ![depId].dependents = Append(@, cid)]
  IN IF depId # 0 /\ depId # cid
     THEN [nodes |-> n2,
           edges |-> IF k # 0
                     THEN [g.edges EXCEPT ![k].strength = @ + 1]
                     ELSE Append(g.edges, [from |-> cid, to |-> depId, strength |-> 1])]
     ELSE g

\* for (const depName of component.dependencies)
RECURSIVE addDependencies(_, _, _, _, _)
addDependencies(g, nameToId, cid, deps, j) ==
  IF j > Len(deps) THEN g
  ELSE addDependencies(addDependency(g, nameToId, cid, deps[j]), nameToId, cid, deps, j + 1)

\* for (const component of components)
RECURSIVE createEdges(_, _, _, _)
createEdges(g, nameToId, comps, i) ==
  IF i > Len(comps) THEN g
  ELSE createEdges(addDependencies(g, nameToId, comps[i].id, comps[i].dependencies, 1),
                   nameToId, comps, i + 1)

----------------------------------------------------------------------------
(* GraphBuilder.calculateDepths: the DFS state is                          *)
(* [visited, temp, depth], depth being the nodes' depth fields             *)

RECURSIVE visit(_, _, _, _)
RECURSIVE visitEach(_, _, _, _, _, _)

\* for (const depId of node.dependencies) { depDepth = visit(depId, depth + 1);
\*   maxDepth = Math.max(maxDepth, depDepth) }
visitEach(nodes, st, deps, j, depth, maxDepth) ==
  IF j > Len(deps) THEN [st |-> st, ret |-> maxDepth]
  ELSE LET r == visit(nodes, st, deps[j], depth + 1)
       IN visitEach(nodes, r.st, deps, j + 1, depth, Max2(maxDepth, r.ret))

\* const visit = (nodeId, depth = 0): number
visit(nodes, st, nodeId, depth) ==
  IF nodeId \in st.temp THEN [st |-> st, ret |-> depth]
  ELSE IF nodeId \in st.visited THEN [st |-> st, ret |-> st.depth[nodeId]]
  ELSE LET st1 == [st EXCEPT !.temp = @ \cup {nodeId}]
           r == visitEach(nodes, st1, nodes[nodeId].dependencies, 1, depth, depth)
       IN [st |-> [temp |-> r.st.temp \ {nodeId},
                   visited |-> r.st.visited \cup {nodeId},
                   depth |-> [r.st.depth EXCEPT ![nodeId] = r.ret]],
           ret |-> r.ret]

\* the top-level call when it starts one level too deep
visitRootOffByOne(nodes, st, nodeId) ==
  IF nodeId \in st.visited THEN st ELSE visit(nodes, st, nodeId, 1).st

\* if (!visited.has(nodeId)) visit(nodeId)
visitRoot(nodes, st, nodeId) ==
  IF nodeId \in st.visited THEN st ELSE visit(nodes, st, nodeId, 0).st

\* for (const nodeId of nodes.keys()): Map keys in insertion order
RECURSIVE visitAll(_, _, _, _)
visitAll(nodes, st, keys, i) ==
  IF i > Len(keys) THEN st
  ELSE visitAll(nodes, visitRoot(nodes, st, keys[i]), keys, i + 1)

calculateDepths(nodes, keys) ==
  LET st == visitAll(nodes,
                     [visited |-> {}, temp |-> {}, depth |-> [i \in DOMAIN nodes |-> nodes[i].depth]],
                     keys, 1)
  IN [i \in DOMAIN nodes |-> [nodes[i] EXCEPT !.depth = st.depth[i]]]

\* the keys of the node map, in insertion order
nodeKeys(comps) == [i \in 1..Len(comps) |-> comps[i].id]

buildGraph(comps) ==
  LET g == createEdges([nodes |-> createNodes(comps), edges |-> <<>>],
                       nameToIdOf(comps), comps, 1)
  IN [nodes |-> calculateDepths(g.nodes, nodeKeys(comps)),
      keys |-> nodeKeys(comps),
      edges |-> g.edges]

----------------------------------------------------------------------------
(* GraphBuilder.detectCircularDependencies: the DFS state is               *)
(* [circularNodes, visited, recursionStack]                                *)

RECURSIVE dfs(_, _, _)
RECURSIVE dfsEach(_, _, _, _, _)

\* the loop when a node is also marked for a dependency that is already
\* marked, so that the mark spreads to every node that leads into a cycle
RECURSIVE dfsEachMarkingLeadIns(_, _, _, _, _)
dfsEachMarkingLeadIns(nodes, st, nodeId, deps, j) ==
  IF j > Len(deps) THEN st
  ELSE LET r == dfs(nodes, st, deps[j])
       IN dfsEachMarkingLeadIns(nodes,
            IF r.ret \/ deps[j] \in r.st.circularNodes
            THEN [r.st EXCEPT !.circularNodes = @ \cup {nodeId}]
            ELSE r.st,
            nodeId, deps, j + 1)

\* for (const depId of node.dependencies) { if (dfs(depId)) circularNodes.add(nodeId) }
dfsEach(nodes, st, nodeId, deps, j) ==
  IF j > Len(deps) THEN st
  ELSE LET r == dfs(nodes, st, deps[j])
       IN dfsEach(nodes,
                  IF r.ret THEN [r.st EXCEPT !.circularNodes = @ \cup {nodeId}] ELSE r.st,
                  nodeId, deps, j + 1)

\* the DFS when the visited test comes before the recursion-stack test: a
\* node on the stack is visited too, so no re-entry is ever seen
dfsVisitedFirst(nodes, st, nodeId) ==
  IF nodeId \in st.visited THEN [st |-> st, ret |-> FALSE]
  ELSE IF nodeId \in st.recursionStack
  THEN [st |-> [st EXCEPT !.circularNodes = @ \cup {nodeId}], ret |-> TRUE]
  ELSE LET st1 == [st EXCEPT !.visited = @ \cup {nodeId},
                             !.recursionStack = @ \cup {nodeId}]
           st2 == IF nodeId \in DOMAIN nodes
                  THEN dfsEach(nodes, st1, nodeId, nodes[nodeId].dependencies, 1)
                  ELSE st1
       IN [st |-> [st2 EXCEPT !.recursionStack = @ \ {nodeId}], ret |-> FALSE]

\* const dfs = (nodeId): boolean
dfs(nodes, st, nodeId) ==
  IF nodeId \in st.recursionStack
  THEN [st |-> [st EXCEPT !.circularNodes = @ \cup {nodeId}], ret |-> TRUE]
  ELSE IF nodeId \in st.visited THEN [st |-> st, ret |-> FALSE]
  ELSE LET st1 == [st EXCEPT !.visited = @ \cup {nodeId},
                             !.recursionStack = @ \cup {nodeId}]
           st2 == IF nodeId \in DOMAIN nodes
                  THEN dfsEach(nodes, st1, nodeId, nodes[nodeId].dependencies, 1)
                  ELSE st1
       IN [st |-> [st2 EXCEPT !.recursionStack = @ \ {nodeId}], ret |-> FALSE]

\* for (const nodeId of graph.nodes.keys()) { if (!visited.has(nodeId)) dfs(nodeId) }
RECURSIVE dfsAll(_, _, _, _)
dfsAll(nodes, st, keys, i) ==
  IF i > Len(keys) THEN st
  ELSE dfsAll(nodes,
              IF keys[i] \in st.visited THEN st ELSE dfs(nodes, st, keys[i]).st,
              keys, i + 1)

detectCircularDependencies(g) ==
  dfsAll(g.nodes, [circularNodes |-> {}, visited |-> {}, recursionStack |-> {}],
         g.keys, 1).circularNodes

----------------------------------------------------------------------------
(* GraphBuilder.buildReactFlowGraph *)

\* "Create nodes": one flow node per graph node, in Map order
buildFlowNodes(g, circular) ==
  [i \in 1..Len(g.keys) |->
     [id |-> g.keys[i],
      hasCircularDep |-> g.keys[i] \in circular,
      dependencyCount |-> Len(g.nodes[g.keys[i]].dependencies),
      dependentCount |-> Len(g.nodes[g.keys[i]].dependents)]]

\* "Create edges": id is `${edge.from}-${edge.to}`, kept as the pair
buildFlowEdges(g) ==
  [i \in 1..Len(g.edges) |->
     [id |-> <<g.edges[i].from, g.edges[i].to>>,
      source |-> g.edges[i].from,
      target |-> g.edges[i].to,
      animated |-> g.edges[i].strength > 1]]

----------------------------------------------------------------------------
(* layoutAlgorithm.applyTreeLayout.  A JavaScript Map keeps its keys in     *)
(* first-insertion order, so `levels` is a sequence of [id, level] entries. *)

LEVEL_HEIGHT == 200

NODE_WIDTH == 200

\* Map.has
mapHas(m, key) == \E i \in 1..Len(m) : m[i].id = key

\* Map.get, for a key the map has
mapGet(m, key) == m[CHOOSE i \in 1..Len(m) : m[i].id = key].level

\* Map.set: a key already present keeps its place and takes the new value
mapSet(m, key, level) ==
  IF mapHas(m, key)
  THEN [i \in 1..Len(m) |-> IF m[i].id = key THEN [id |-> key, level |-> level] ELSE m[i]]
  ELSE Append(m, [id |-> key, level |-> level])

\* childrenMap.get(id) || []: the targets of the edges leaving id, in edge order
childrenOf(edges, id) ==
  LET leaving(e) == e.source = id
      out == SelectSeq(edges, leaving)
  IN [i \in 1..Len(out) |-> out[i].target]

\* rootNodes: the nodes that are the target of no edge, in node order
rootNodesOf(nodes, edges) ==
  LET hasIncoming == {edges[i].target : i \in 1..Len(edges)}
      isRoot(n) == n.id \notin hasIncoming
  IN SelectSeq(nodes, isRoot)

\* while (queue.length > 0) { shift; levels.set(id, level); push the children
\*   that have no level yet }
RECURSIVE calculateLevels(_, _, _)
calculateLevels(queue, levels, edges) ==
  IF queue = <<>> THEN levels
  ELSE LET head == Head(queue)
           levels1 == mapSet(levels, head.id, head.level)
           children == childrenOf(edges, head.id)
           unleveled(c) == ~mapHas(levels1, c)
           pushed == SelectSeq(children, unleveled)
       IN calculateLevels(
            Tail(queue) \o [i \in 1..Len(pushed) |-> [id |-> pushed[i], level |-> head.level + 1]],
            levels1, edges)

\* one turn of the loop when an entry whose id has a level already is left
\* at the head of the queue
levelStepNoShift(queue, levels, edges) ==
  LET head == Head(queue)
      levels1 == mapSet(levels, head.id, head.level)
      children == childrenOf(edges, head.id)
      unleveled(c) == ~mapHas(levels1, c)
      pushed == SelectSeq(children, unleveled)
  IN IF mapHas(levels, head.id)
     THEN [queue |-> queue, levels |-> levels]
     ELSE [queue |-> Tail(queue) \o
                       [i \in 1..Len(pushed) |-> [id |-> pushed[i], level |-> head.level + 1]],
           levels |-> levels1]

\* one turn of `while (queue.length > 0)`: shift, levels.set, push the children
\* that have no level yet
levelStep(queue, levels, edges) ==
  LET head == Head(queue)
      levels1 == mapSet(levels, head.id, head.level)
      children == childrenOf(edges, head.id)
      unleveled(c) == ~mapHas(levels1, c)
      pushed == SelectSeq(children, unleveled)
  IN [queue |-> Tail(queue) \o
                  [i \in 1..Len(pushed) |-> [id |-> pushed[i], level |-> head.level + 1]],
      levels |-> levels1]

\* levelGroups.get(level) || []: the ids of a level, in the Map order of levels
levelGroup(levels, level) ==
  LET atLevel(e) == e.level = level
      g == SelectSeq(levels, atLevel)
  IN [i \in 1..Len(g) |-> g[i].id]

\* the level table of a node list and an edge list
treeLevels(nodes, edges) ==
  LET roots == rootNodesOf(nodes, edges)
  IN calculateLevels([i \in 1..Len(roots) |-> [id |-> roots[i].id, level |-> 0]], <<>>, edges)

\* the position of one node when the top offset of 50 is left out of y
positionOfNoOffset(levels, id) ==
  LET level == IF mapHas(levels, id) THEN mapGet(levels, id) ELSE 0
      nodesInLevel == levelGroup(levels, level)
      indexInLevel == IndexOf(nodesInLevel, id)
      totalInLevel == Len(nodesInLevel)
  IN [x |-> indexInLevel * NODE_WIDTH - totalInLevel * (NODE_WIDTH \div 2) + 400,
      y |-> level * LEVEL_HEIGHT]

\* the position of one node: (indexInLevel - totalInLevel / 2) * NODE_WIDTH + 400
\* is computed in integers as indexInLevel * NODE_WIDTH - totalInLevel * (NODE_WIDTH / 2) + 400
positionOf(levels, id) ==
  LET level == IF mapHas(levels, id) THEN mapGet(levels, id) ELSE 0
      nodesInLevel == levelGroup(levels, level)
      indexInLevel == IndexOf(nodesInLevel, id)
      totalInLevel == Len(nodesInLevel)
  IN [x |-> indexInLevel * NODE_WIDTH - totalInLevel * (NODE_WIDTH \div 2) + 400,
      y |-> level * LEVEL_HEIGHT + 50]

applyTreeLayout(nodes, edges) ==
  LET levels == treeLevels(nodes, edges)
  IN [i \in 1..Len(nodes) |-> [id |-> nodes[i].id, position |-> positionOf(levels, nodes[i].id)]]

----------------------------------------------------------------------------
(* ScouterModeService.extractRelatedNodes *)

\* allNodes.find((n) => n.id === centerNodeId), as the sequence of the hits
findNode(allNodes, centerNodeId) ==
  LET isCentre(n) == n.id = centerNodeId
  IN SelectSeq(allNodes, isCentre)

\* allNodes.filter((n) => ids.has(n.id))
nodesWithIds(allNodes, ids) ==
  LET member(n) == n.id \in ids
  IN SelectSeq(allNodes, member)

\* the one-hop extraction when the incoming edges are left out of relatedEdges
extractDirectRelationsOutgoingOnly(centerNodeId, allNodes, allEdges) ==
  LET leaving(e) == e.source = centerNodeId
      entering(e) == e.target = centerNodeId
      dependencyEdges == SelectSeq(allEdges, leaving)
      dependencyNodeIds == {dependencyEdges[i].target : i \in 1..Len(dependencyEdges)}
      dependentEdges == SelectSeq(allEdges, entering)
      dependentNodeIds == {dependentEdges[i].source : i \in 1..Len(dependentEdges)}
  IN [centerNode |-> Head(findNode(allNodes, centerNodeId)),
      dependencyNodes |-> nodesWithIds(allNodes, dependencyNodeIds),
      dependentNodes |-> nodesWithIds(allNodes, dependentNodeIds),
      relatedEdges |-> dependencyEdges]

extractDirectRelations(centerNodeId, allNodes, allEdges) ==
  LET leaving(e) == e.source = centerNodeId
      entering(e) == e.target = centerNodeId
      dependencyEdges == SelectSeq(allEdges, leaving)
      dependencyNodeIds == {dependencyEdges[i].target : i \in 1..Len(dependencyEdges)}
      dependentEdges == SelectSeq(allEdges, entering)
      dependentNodeIds == {dependentEdges[i].source : i \in 1..Len(dependentEdges)}
  IN [centerNode |-> Head(findNode(allNodes, centerNodeId)),
      dependencyNodes |-> nodesWithIds(allNodes, dependencyNodeIds),
      dependentNodes |-> nodesWithIds(allNodes, dependentNodeIds),
      relatedEdges |-> dependencyEdges \o dependentEdges]

\* the two DFS passes share relatedEdgeIds; each has its own node-id set.
\* The DFS state is [nodeIds, edgeIds].
RECURSIVE visitDependencies(_, _, _, _)
RECURSIVE visitDependencyEdges(_, _, _, _, _)

\* edges.forEach of visitDependencies
visitDependencyEdges(allEdges, centerNodeId, st, edges, j) ==
  IF j > Len(edges) THEN st
  ELSE LET edge == edges[j]
           st1 == [st EXCEPT !.edgeIds = @ \cup {edge.id}]
           st2 == IF edge.target \notin st1.nodeIds /\ edge.target # centerNodeId
                  THEN visitDependencies(allEdges, centerNodeId,
                                         [st1 EXCEPT !.nodeIds = @ \cup {edge.target}],
                                         edge.target)
                  ELSE st1
       IN visitDependencyEdges(allEdges, centerNodeId, st2, edges, j + 1)

visitDependencies(allEdges, centerNodeId, st, nodeId) ==
  LET leaving(e) == e.source = nodeId
  IN visitDependencyEdges(allEdges, centerNodeId, st, SelectSeq(allEdges, leaving), 1)

RECURSIVE visitDependents(_, _, _, _)
RECURSIVE visitDependentEdges(_, _, _, _, _)

\* edges.forEach of visitDependents
visitDependentEdges(allEdges, centerNodeId, st, edges, j) ==
  IF j > Len(edges) THEN st
  ELSE LET edge == edges[j]
           st1 == [st EXCEPT !.edgeIds = @ \cup {edge.id}]
           st2 == IF edge.source \notin st1.nodeIds /\ edge.source # centerNodeId
                  THEN visitDependents(allEdges, centerNodeId,
                                       [st1 EXCEPT !.nodeIds = @ \cup {edge.source}],
                                       edge.source)
                  ELSE st1
       IN visitDependentEdges(allEdges, centerNodeId, st2, edges, j + 1)

visitDependents(allEdges, centerNodeId, st, nodeId) ==
  LET entering(e) == e.target = nodeId
  IN visitDependentEdges(allEdges, centerNodeId, st, SelectSeq(allEdges, entering), 1)

\* the closure when neither DFS follows an edge beyond its first hop
extractAllDescendantsOneHop(centerNodeId, allNodes, allEdges) ==
  extractDirectRelations(centerNodeId, allNodes, allEdges)

extractAllDescendants(centerNodeId, allNodes, allEdges) ==
  LET down == visitDependencies(allEdges, centerNodeId,
                                [nodeIds |-> {}, edgeIds |-> {}], centerNodeId)
      up == visitDependents(allEdges, centerNodeId,
                            [nodeIds |-> {}, edgeIds |-> down.edgeIds], centerNodeId)
      isRelated(e) == e.id \in up.edgeIds
  IN [centerNode |-> Head(findNode(allNodes, centerNodeId)),
      dependencyNodes |-> nodesWithIds(allNodes, down.nodeIds),
      dependentNodes |-> nodesWithIds(allNodes, up.nodeIds),
      relatedEdges |-> SelectSeq(allEdges, isRelated)]

\* the call when a missing centre is swallowed: nothing is thrown and the
\* caller gets an empty result
extractRelatedNodesSwallowed(centerNodeId, allNodes, allEdges, showAllDescendants) ==
  IF findNode(allNodes, centerNodeId) = <<>>
  THEN [thrown |-> FALSE, result |-> <<>>]
  ELSE IF showAllDescendants
  THEN [thrown |-> FALSE, result |-> <<extractAllDescendants(centerNodeId, allNodes, allEdges)>>]
  ELSE [thrown |-> FALSE, result |-> <<extractDirectRelations(centerNodeId, allNodes, allEdges)>>]

\* the outcome of a call: thrown, or returned with the result
extractRelatedNodes(centerNodeId, allNodes, allEdges, showAllDescendants) ==
  IF findNode(allNodes, centerNodeId) = <<>>
  THEN [thrown |-> TRUE, result |-> <<>>]
  ELSE IF showAllDescendants
  THEN [thrown |-> FALSE, result |-> <<extractAllDescendants(centerNodeId, allNodes, allEdges)>>]
  ELSE [thrown |-> FALSE, result |-> <<extractDirectRelations(centerNodeId, allNodes, allEdges)>>]

----------------------------------------------------------------------------
(* useScouterMode.  The hook keeps one state object.  A callback reads the  *)
(* state, the nodes and the edges of the render that created it, and calls  *)
(* setState with an updater (prev) => next; React runs the queued updaters  *)
(* in call order at the next render.  A queued update is a record           *)
(* [kind, centerNodeId, visibleNodeIds, visibleEdgeIds]; the last three are *)
(* what the updater of an activation closes over.  centerNodeId 0 is null.  *)

\* useState<ScouterModeState>({...})
initialState(initialShowAllDescendants) ==
  [isActive |-> FALSE, centerNodeId |-> 0, visibleNodeIds |-> {},
   visibleEdgeIds |-> {}, showAllDescendants |-> initialShowAllDescendants]

\* the visible ids when the centre itself is left out of visibleNodeIds
visibleSetsWithoutCentre(relatedNodes) ==
  [visibleNodeIds |->
     {relatedNodes.dependencyNodes[i].id : i \in 1..Len(relatedNodes.dependencyNodes)}
       \cup {relatedNodes.dependentNodes[i].id : i \in 1..Len(relatedNodes.dependentNodes)},
   visibleEdgeIds |->
     {relatedNodes.relatedEdges[i].id : i \in 1..Len(relatedNodes.relatedEdges)}]

\* the visible ids when the dependents are left out of visibleNodeIds
visibleSetsWithoutDependents(relatedNodes) ==
  [visibleNodeIds |->
     {relatedNodes.centerNode.id}
       \cup {relatedNodes.dependencyNodes[i].id : i \in 1..Len(relatedNodes.dependencyNodes)},
   visibleEdgeIds |->
     {relatedNodes.relatedEdges[i].id : i \in 1..Len(relatedNodes.relatedEdges)}]

\* new Set([centerNode.id, ...dependencyNodes ids, ...dependentNodes ids]) and
\* new Set(relatedEdges ids)
visibleSets(relatedNodes) ==
  [visibleNodeIds |->
     {relatedNodes.centerNode.id}
       \cup {relatedNodes.dependencyNodes[i].id : i \in 1..Len(relatedNodes.dependencyNodes)}
       \cup {relatedNodes.dependentNodes[i].id : i \in 1..Len(relatedNodes.dependentNodes)},
   visibleEdgeIds |->
     {relatedNodes.relatedEdges[i].id : i \in 1..Len(relatedNodes.relatedEdges)}]

\* a queued update that closes over nothing
plainUpdate(kind) ==
  [kind |-> kind, centerNodeId |-> 0, visibleNodeIds |-> {}, visibleEdgeIds |-> {}]

\* the activation that does not look for a lookup failure: an unknown id is
\* made the centre of an empty neighbourhood
activateScouterModeUnchecked(rendered, nodes, edges, nodeId) ==
  LET call == extractRelatedNodes(nodeId, nodes, edges, rendered.showAllDescendants)
      sets == IF call.thrown
              THEN [visibleNodeIds |-> {nodeId}, visibleEdgeIds |-> {}]
              ELSE visibleSets(call.result[1])
  IN [raised |-> FALSE,
      updates |-> <<[kind |-> "activate", centerNodeId |-> nodeId,
                     visibleNodeIds |-> sets.visibleNodeIds,
                     visibleEdgeIds |-> sets.visibleEdgeIds]>>,
      notified |-> <<TRUE>>]

\* activateScouterMode(nodeId) of the render whose state is `rendered`: what it
\* raises, the updates it queues and the calls of onModeChange it makes.  The
\* catch block logs the lookup failure and returns.
activateScouterMode(rendered, nodes, edges, nodeId) ==
  LET call == extractRelatedNodes(nodeId, nodes, edges, rendered.showAllDescendants)
  IN IF call.thrown
     THEN [raised |-> FALSE, updates |-> <<>>, notified |-> <<>>]
     ELSE LET sets == visibleSets(call.result[1])
          IN [raised |-> FALSE,
              updates |-> <<[kind |-> "activate", centerNodeId |-> nodeId,
                             visibleNodeIds |-> sets.visibleNodeIds,
                             visibleEdgeIds |-> sets.visibleEdgeIds]>>,
              notified |-> <<TRUE>>]

\* deactivateScouterMode()
deactivateScouterMode ==
  [raised |-> FALSE, updates |-> <<plainUpdate("deactivate")>>, notified |-> <<FALSE>>]

\* toggleShowAllDescendants(): all its work is in the updater
toggleShowAllDescendants ==
  [raised |-> FALSE, updates |-> <<plainUpdate("toggle")>>, notified |-> <<>>]

\* the updater of an activation when it adds to the visible sets of prev
activateUpdaterKeepingVisible(prev, update) ==
  [thrown |-> FALSE,
   state |-> [prev EXCEPT !.isActive = TRUE,
                          !.centerNodeId = update.centerNodeId,
                          !.visibleNodeIds = prev.visibleNodeIds \cup update.visibleNodeIds,
                          !.visibleEdgeIds = prev.visibleEdgeIds \cup update.visibleEdgeIds]]

\* (prev) => ({...prev, isActive: true, centerNodeId: nodeId, visibleNodeIds, visibleEdgeIds})
activateUpdater(prev, update) ==
  [thrown |-> FALSE,
   state |-> [prev EXCEPT !.isActive = TRUE,
                          !.centerNodeId = update.centerNodeId,
                          !.visibleNodeIds = update.visibleNodeIds,
                          !.visibleEdgeIds = update.visibleEdgeIds]]

\* the updater of a deactivation when it keeps the centre
deactivateUpdaterKeepingCentre(prev) ==
  [thrown |-> FALSE,
   state |-> [prev EXCEPT !.isActive = FALSE,
                          !.visibleNodeIds = {},
                          !.visibleEdgeIds = {}]]

\* (prev) => ({...prev, isActive: false, centerNodeId: null, visibleNodeIds: new Set(),
\*             visibleEdgeIds: new Set()})
deactivateUpdater(prev) ==
  [thrown |-> FALSE,
   state |-> [prev EXCEPT !.isActive = FALSE,
                          !.centerNodeId = 0,
                          !.visibleNodeIds = {},
                          !.visibleEdgeIds = {}]]

\* the updater of a toggle when it flips the flag and keeps the visible sets
toggleUpdaterKeepingVisible(prev, nodes, edges) ==
  [thrown |-> FALSE,
   state |-> [prev EXCEPT !.showAllDescendants = ~prev.showAllDescendants]]

\* the updater of toggleShowAllDescendants.  It extracts again for the centre
\* of prev, outside any try block: a lookup failure is thrown out of the render.
toggleUpdater(prev, nodes, edges) ==
  LET newShowAllDescendants == ~prev.showAllDescendants
  IN IF prev.isActive /\ prev.centerNodeId # 0
     THEN LET call == extractRelatedNodes(prev.centerNodeId, nodes, edges,
                                          newShowAllDescendants)
          IN IF call.thrown
             THEN [thrown |-> TRUE, state |-> prev]
             ELSE LET sets == visibleSets(call.result[1])
                  IN [thrown |-> FALSE,
                      state |-> [prev EXCEPT !.showAllDescendants = newShowAllDescendants,
                                             !.visibleNodeIds = sets.visibleNodeIds,
                                             !.visibleEdgeIds = sets.visibleEdgeIds]]
     ELSE [thrown |-> FALSE,
           state |-> [prev EXCEPT !.showAllDescendants = newShowAllDescendants]]

\* React runs the queued updaters in call order, each on the result of the
\* one before; nodes and edges are those of the render that made the callbacks
RECURSIVE applyUpdates(_, _, _, _)
applyUpdates(prev, updates, nodes, edges) ==
  IF updates = <<>> THEN [thrown |-> FALSE, state |-> prev]
  ELSE LET update == Head(updates)
           next == IF update.kind = "activate" THEN activateUpdater(prev, update)
                   ELSE IF update.kind = "deactivate" THEN deactivateUpdater(prev)
                   ELSE toggleUpdater(prev, nodes, edges)
       IN IF next.thrown THEN next
          ELSE applyUpdates(next.state, Tail(updates), nodes, edges)

\* ScouterModeService.highlightCenterNode: the node with data.isScouterCenter
highlightCenterNode(node) == [id |-> node.id, isScouterCenter |-> TRUE]

\* filteredNodes (useMemo)
filteredNodes(current, nodes) ==
  IF ~current.isActive THEN nodes
  ELSE LET isVisible(n) == n.id \in current.visibleNodeIds
           shown == SelectSeq(nodes, isVisible)
       IN [i \in 1..Len(shown) |->
             IF shown[i].id = current.centerNodeId
             THEN highlightCenterNode(shown[i])
             ELSE shown[i]]

\* filteredEdges (useMemo)
filteredEdges(current, edges) ==
  IF ~current.isActive THEN edges
  ELSE LET isVisible(e) == e.id \in current.visibleEdgeIds
       IN SelectSeq(edges, isVisible)

----------------------------------------------------------------------------
(* ComponentParser.parseFile.  A file is given by what Babel makes of its   *)
(* content: a syntax error, or its import declarations and its function,    *)
(* variable and class declarations in source order, each with the names its *)
(* body calls.  An import is [isRelative, specifiers], isRelative standing  *)
(* for a source that starts with '.' or '/'.                                *)

\* /^[A-Z][a-zA-Z0-9]*$/.test(name)
isPascalCase(name) == name \in Names

\* isCustomHook: /^use[A-Z][a-zA-Z0-9]*$/.test(name)
isCustomHook(name) == name \in {"useA", "useB"}

isPotentialComponent(name) == isPascalCase(name) \/ isCustomHook(name)

\* [...new Set(list)]: the first occurrence of each element, in order
RECURSIVE unique(_)
unique(list) ==
  IF list = <<>> THEN <<>>
  ELSE LET init == unique(SubSeq(list, 1, Len(list) - 1))
           last == list[Len(list)]
       IN IF last \in Range(init) THEN init ELSE Append(init, last)

\* parseCode: Babel's parse throws on a syntax error
parseCode(fileInfo) ==
  [thrown |-> fileInfo.syntaxError,
   ast |-> [imports |-> fileInfo.imports, declarations |-> fileInfo.declarations]]

isReactImport(isRelative, specifiers) ==
  isRelative \/ \E i \in 1..Len(specifiers) : isPascalCase(specifiers[i])

extractImports(ast) ==
  [i \in 1..Len(ast.imports) |->
     [specifiers |-> ast.imports[i].specifiers,
      isReactComponent |-> isReactImport(ast.imports[i].isRelative, ast.imports[i].specifiers)]]

\* the declarations whose name passes isPotentialComponent, in source order
extractComponents(ast) ==
  LET potential(d) == isPotentialComponent(d.name)
  IN SelectSeq(ast.declarations, potential)

\* for (const imp of imports) if (imp.isReactComponent) dependencies.push(...imp.specifiers)
RECURSIVE importedNames(_, _)
importedNames(imports, i) ==
  IF i > Len(imports) THEN <<>>
  ELSE (IF imports[i].isReactComponent THEN imports[i].specifiers ELSE <<>>)
       \o importedNames(imports, i + 1)

extractDependencies(componentName, imports) ==
  LET notSelf(dep) == dep # componentName
  IN SelectSeq(importedNames(imports, 1), notSelf)

\* the names of the custom hooks the body calls, each once, in call order
extractCustomHookCalls(body) == unique(SelectSeq(body, isCustomHook))

\* `${fileInfo.path}:${data.name}`: one number per pair of a path and a name
unitId(path, name) ==
  path * Len(AllNameOrder) + CHOOSE j \in 1..Len(AllNameOrder) : AllNameOrder[j] = name

\* the unit of one declaration of a file
unitOf(fileInfo, imports, data) ==
  LET customHookCalls == extractCustomHookCalls(data.calls)
      importDeps == extractDependencies(data.name, imports)
  IN [id |-> unitId(fileInfo.path, data.name),
      name |-> data.name,
      dependencies |-> unique(importDeps \o customHookCalls)]

\* parseFile when the try block has no catch: the parse error goes to the caller
parseFileNoCatch(fileInfo) ==
  LET parsed == parseCode(fileInfo)
      imports == extractImports(parsed.ast)
      componentData == extractComponents(parsed.ast)
  IN IF parsed.thrown
     THEN [thrown |-> TRUE, components |-> <<>>]
     ELSE [thrown |-> FALSE,
           components |-> [i \in 1..Len(componentData) |->
                             unitOf(fileInfo, imports, componentData[i])]]

\* the outcome of a call: the catch block turns a throw of the try block
\* into the return of the units collected so far, which are none
parseFile(fileInfo) ==
  LET parsed == parseCode(fileInfo)
      imports == extractImports(parsed.ast)
      componentData == extractComponents(parsed.ast)
  IN IF parsed.thrown
     THEN [thrown |-> FALSE, components |-> <<>>]
     ELSE [thrown |-> FALSE,
           components |-> [i \in 1..Len(componentData) |->
                             unitOf(fileInfo, imports, componentData[i])]]

----------------------------------------------------------------------------
(* ComponentParser.calculateComplexity.  The JavaScript numbers are kept    *)
(* exact as multiples of 1/120, which holds every term of the sum:          *)
(* locScore * 0.25 = loc / 8, depScore * 0.2 = 2 * deps,                    *)
(* propsScore * 0.15 = props, libScore * 0.05 = libs, 20 * 0.2 = 4.         *)

Min2(a, b) == IF a <= b THEN a ELSE b

\* Math.round of x / 120.  Half-way cases round up in exact arithmetic; the
\* floating-point sum can fall on either side of one, so both are outcomes.
round120(x) ==
  IF x % 120 = 60 THEN {x \div 120, x \div 120 + 1} ELSE {(x + 60) \div 120}

\* the score when no Math.min caps a metric or the sum
calculateComplexityUnclamped(m) ==
  LET locScore == (m.linesOfCode * 100 * 120) \div 200
      depScore == (m.dependencyCount * 100 * 120) \div 10
      hooksScore == (m.hooksCount * 100 * 120) \div 10
      propsScore == (m.propsCount * 100 * 120) \div 15
      libScore == (m.externalLibraryCount * 100 * 120) \div 5
      sum == (locScore * 25) \div 100 + (depScore * 20) \div 100 + (hooksScore * 20) \div 100
               + (propsScore * 15) \div 100 + (libScore * 5) \div 100 + (20 * 120 * 20) \div 100
  IN round120(sum)

\* the scores a call can return
calculateComplexity(m) ==
  LET locScore == Min2(100 * 120, (m.linesOfCode * 100 * 120) \div 200)
      depScore == Min2(100 * 120, (m.dependencyCount * 100 * 120) \div 10)
      hooksScore == Min2(100 * 120, (m.hooksCount * 100 * 120) \div 10)
      propsScore == Min2(100 * 120, (m.propsCount * 100 * 120) \div 15)
      libScore == Min2(100 * 120, (m.externalLibraryCount * 100 * 120) \div 5)
      sum == (locScore * 25) \div 100 + (depScore * 20) \div 100 + (hooksScore * 20) \div 100
               + (propsScore * 15) \div 100 + (libScore * 5) \div 100 + (20 * 120 * 20) \div 100
  IN round120(Min2(100 * 120, sum))

----------------------------------------------------------------------------
(* Node styling (GraphBuilder) and node filtering (useGraphFilter).  A file *)
(* path is [directories, stem, extension]: its last '/'-separated segment,  *)
(* the file name, is stem.extension.                                        *)

\* filePath.split('/').pop()
fileNameOf(filePath) == [stem |-> filePath.stem, extension |-> filePath.extension]

\* the test when the file name is matched on its stem alone
isRootComponentAnyExtension(filePath) ==
  fileNameOf(filePath).stem \in {"page", "layout", "route"}

\* fileName === 'page.tsx' || fileName === 'layout.tsx' || fileName === 'route.ts'
isRootComponent(filePath) ==
  LET fileName == fileNameOf(filePath)
  IN \/ fileName = [stem |-> "page", extension |-> "tsx"]
     \/ fileName = [stem |-> "layout", extension |-> "tsx"]
     \/ fileName = [stem |-> "route", extension |-> "ts"]

getNodeColor(nodeComplexity, isUnused, hasCircularDep, isRoot) ==
  IF hasCircularDep THEN "#ef4444"
  ELSE IF isRoot THEN "#8b5cf6"
  ELSE IF isUnused THEN "#9ca3af"
  ELSE IF nodeComplexity <= 30 THEN "#22c55e"
  ELSE IF nodeComplexity <= 60 THEN "#3b82f6"
  ELSE IF nodeComplexity <= 80 THEN "#eab308"
  ELSE "#f97316"

\* the style buildReactFlowGraph gives a node
styleOf(node) ==
  [backgroundColor |-> getNodeColor(node.complexity, node.dependentCount = 0,
                                    node.hasCircularDep, isRootComponent(node.filePath)),
   border |-> IF node.hasCircularDep THEN "3px solid #dc2626" ELSE "2px solid #fff"]

\* the callback of nodes.filter in useGraphFilter, for an empty search query
passesFilter(node, nodeStyle, options) ==
  LET fileName == fileNameOf(node.filePath)
      isRoot == \/ fileName = [stem |-> "page", extension |-> "tsx"]
                \/ fileName = [stem |-> "layout", extension |-> "tsx"]
                \/ fileName = [stem |-> "route", extension |-> "ts"]
  IN IF node.complexity < options.complexityRange.min
        \/ node.complexity > options.complexityRange.max THEN FALSE
     ELSE IF options.componentTypes # {} /\ node.type \notin options.componentTypes THEN FALSE
     ELSE IF options.fileExtensions # {}
             /\ node.filePath.extension \notin options.fileExtensions THEN FALSE
     ELSE IF ~options.showUnused /\ node.dependentCount = 0 /\ ~isRoot THEN FALSE
     ELSE IF ~options.showCircular /\ nodeStyle.border = "3px solid #dc2626" THEN FALSE
     ELSE TRUE

----------------------------------------------------------------------------
(* The analysis run and the requests made of its result *)

NoGraph == [nodes |-> <<>>, keys |-> <<>>, edges |-> <<>>]

NoRequest == [called |-> FALSE, centerNodeId |-> 0, showAllDescendants |-> TRUE]

NoResult == [thrown |-> FALSE, result |-> <<>>]

\* no file was scanned
NoFiles == files = <<>> /\ fileIndex = 1

NoMetrics ==
  [linesOfCode |-> 0, dependencyCount |-> 0, hooksCount |-> 0, propsCount |-> 0,
   externalLibraryCount |-> 0]

\* no unit was scored
NoScore == metrics = NoMetrics /\ complexity = 0

NoFilter ==
  [complexityRange |-> [min |-> 0, max |-> 100], componentTypes |-> {},
   fileExtensions |-> {}, showUnused |-> TRUE, showCircular |-> TRUE]

NoNode ==
  [filePath |-> [directories |-> <<>>, stem |-> "", extension |-> ""],
   type |-> "function", complexity |-> 0, dependentCount |-> 0, hasCircularDep |-> FALSE]

Unstyled == [backgroundColor |-> "", border |-> ""]

\* no node was styled or filtered
NoStyle ==
  flowNode = NoNode /\ filterOptions = NoFilter /\ style = Unstyled /\ visible = TRUE

\* no layout loop is running
NoLayout == layoutQueue = <<>> /\ layoutLevels = <<>>

\* no callback of the hook was called yet, from the render of `rendered`
NoCall(rendered) ==
  [op |-> "none", nodeId |-> 0, raised |-> FALSE, notified |-> <<>>, rendered |-> rendered]

\* the hook is as GraphView mounts it and nothing was asked of it
NoHook ==
  /\ state = initialState(TRUE)
  /\ pending = <<>>
  /\ applied = <<>>
  /\ lastCall = NoCall(initialState(TRUE))
  /\ replaced = 0

Init ==
  /\ pc = "parsed"
  /\ \E n \in 0..MaxUnits, k \in 0..MaxRefs :
       \E nm \in UnitNames(n), flat \in [1..k -> Names], owner \in Owners(k, n) :
         components = makeComponents(nm, flat, owner)
  /\ graph = NoGraph
  /\ circularNodes = {}
  /\ flowNodes = <<>>
  /\ flowEdges = <<>>
  /\ layouted = <<>>
  /\ request = NoRequest
  /\ related = NoResult
  /\ NoFiles /\ NoScore /\ NoStyle /\ NoLayout /\ NoHook

\* useProjectAnalysis: graphBuilder.buildGraph(allComponents)
BuildGraph ==
  /\ pc = "parsed"
  /\ graph' = buildGraph(components)
  /\ pc' = "built"
  /\ UNCHANGED <<components, circularNodes, flowNodes, flowEdges, layouted, request, related>>
  /\ UNCHANGED <<parserVars, scoreVars, styleVars, layoutVars, hookVars>>

\* useProjectAnalysis: graphBuilder.buildReactFlowGraph(graph)
BuildReactFlowGraph ==
  /\ pc = "built"
  /\ circularNodes' = detectCircularDependencies(graph)
  /\ flowNodes' = buildFlowNodes(graph, circularNodes')
  /\ flowEdges' = buildFlowEdges(graph)
  /\ pc' = "flow"
  /\ UNCHANGED <<components, graph, layouted, request, related>>
  /\ UNCHANGED <<parserVars, scoreVars, styleVars, layoutVars, hookVars>>

\* useGraphLayout: applyLayout(initialNodes, initialEdges, 'tree')
ApplyLayout ==
  /\ pc = "flow"
  /\ layouted' = applyTreeLayout(flowNodes, flowEdges)
  /\ pc' = "layouted"
  /\ UNCHANGED <<components, graph, circularNodes, flowNodes, flowEdges, request, related>>
  /\ UNCHANGED <<parserVars, scoreVars, styleVars, layoutVars, hookVars>>

\* ScouterModeService.extractRelatedNodes(centerNodeId, nodes, edges, {showAllDescendants})
\* on the displayed graph; the id after the last one is the id of no node
ExtractRelatedNodes(centerNodeId, showAllDescendants) ==
  /\ pc = "layouted"
  /\ request' = [called |-> TRUE, centerNodeId |-> centerNodeId,
                 showAllDescendants |-> showAllDescendants]
  /\ related' = extractRelatedNodes(centerNodeId, flowNodes, flowEdges, showAllDescendants)
  /\ UNCHANGED <<pc, components, graph, circularNodes, flowNodes, flowEdges, layouted>>
  /\ UNCHANGED <<parserVars, scoreVars, styleVars, layoutVars, hookVars>>

Next ==
  \/ BuildGraph
  \/ BuildReactFlowGraph
  \/ ApplyLayout

Spec == Init /\ [][Next]_vars

----------------------------------------------------------------------------
(* The graph view: GraphView hands the nodes and edges of an analysis       *)
(* result to the scouter code.  The units and the DependencyGraph are       *)
(* locals of analyzeProject and are gone by then.                           *)

\* the ordered pairs of distinct ids among 1..n, source-major as buildGraph
\* emits the edges of units whose dependency lists are ascending
RECURSIVE PairsFrom(_, _, _)
PairsFrom(n, a, b) ==
  IF a > n THEN <<>>
  ELSE IF b > n THEN PairsFrom(n, a + 1, 1)
  ELSE (IF a = b THEN <<>> ELSE <<<<a, b>>>>) \o PairsFrom(n, a, b + 1)

\* the flow graphs of n nodes: every set of edges between distinct nodes
FlowGraphs(n) ==
  LET pairs == PairsFrom(n, 1, 1)
  IN { [nodes |-> [i \in 1..n |-> [id |-> i]],
        edges |-> LET chosen(p) == p \in E
                      ps == SelectSeq(pairs, chosen)
                  IN [i \in 1..Len(ps) |->
                        [id |-> ps[i], source |-> ps[i][1], target |-> ps[i][2]]]] :
       E \in SUBSET Range(pairs) }

InitScouter ==
  /\ pc = "layouted"
  /\ components = <<>>
  /\ graph = NoGraph
  /\ circularNodes = {}
  /\ \E n \in 0..MaxNodes : \E fg \in FlowGraphs(n) :
       /\ flowNodes = fg.nodes
       /\ flowEdges = fg.edges
       /\ layouted = applyTreeLayout(fg.nodes, fg.edges)
  /\ request = NoRequest
  /\ related = NoResult
  /\ NoFiles /\ NoScore /\ NoStyle /\ NoLayout /\ NoHook

NextScouter ==
  \E c \in 1..(Len(flowNodes) + 1), b \in BOOLEAN : ExtractRelatedNodes(c, b)

SpecScouter == InitScouter /\ [][NextScouter]_vars

----------------------------------------------------------------------------
(* Parsing: useProjectAnalysis parses the scanned files one by one and      *)
(* appends the units of each to allComponents.                              *)

\* the sequences over S of length at most n
SeqsUpTo(S, n) == UNION {[1..k -> S] : k \in 0..n}

\* the import declarations a file can have
ImportLists ==
  SeqsUpTo([isRelative : BOOLEAN,
            specifiers : SeqsUpTo({"A", "useA"}, MaxSpecifiers) \ {<<>>}],
           MaxImports)

\* the declarations a file can have: a component, a custom hook and a plain
\* function, no name declared twice
DeclarationLists(maxCalls) ==
  {ds \in SeqsUpTo([name : {"A", "useA", "helper"},
                    calls : SeqsUpTo({"useA", "useB", "helper"}, maxCalls)],
                   MaxDeclarations) :
     \A i, j \in 1..Len(ds) : ds[i].name = ds[j].name => i = j}

\* a file that does not parse
InvalidFile(path) ==
  [path |-> path, syntaxError |-> TRUE, imports |-> <<>>, declarations |-> <<>>]

\* the files at a path
FileInfos(path) ==
  {InvalidFile(path)} \cup
  {[path |-> path, syntaxError |-> FALSE, imports |-> imps, declarations |-> ds] :
     imps \in ImportLists, ds \in DeclarationLists(MaxCalls)}

\* the files at a path that import nothing and call nothing
PlainFileInfos(path) ==
  {InvalidFile(path)} \cup
  {[path |-> path, syntaxError |-> FALSE, imports |-> <<>>, declarations |-> ds] :
     ds \in DeclarationLists(0)}

\* nothing was built, displayed or requested
NoAnalysis ==
  /\ components = <<>>
  /\ graph = NoGraph
  /\ circularNodes = {}
  /\ flowNodes = <<>>
  /\ flowEdges = <<>>
  /\ layouted = <<>>
  /\ request = NoRequest
  /\ related = NoResult

\* one turn of `for (const file of files)`: parseFile, then push its units.
\* A throw of parseFile would leave analyzeProject through its finally block.
ParseFile ==
  /\ pc = "parsing"
  /\ fileIndex <= Len(files)
  /\ LET r == parseFile(files[fileIndex])
     IN IF r.thrown
        THEN /\ pc' = "failed"
             /\ UNCHANGED <<components, fileIndex>>
        ELSE /\ components' = components \o r.components
             /\ fileIndex' = fileIndex + 1
             /\ pc' = IF fileIndex = Len(files) THEN "parsed" ELSE "parsing"
  /\ UNCHANGED <<files, graph, circularNodes, flowNodes, flowEdges, layouted, request, related>>
  /\ UNCHANGED <<scoreVars, styleVars, layoutVars, hookVars>>

\* one file of any content is parsed
InitParser ==
  /\ pc = "parsing"
  /\ \E f \in FileInfos(1) : files = <<f>>
  /\ fileIndex = 1
  /\ NoAnalysis /\ NoScore /\ NoStyle /\ NoLayout /\ NoHook

NextParser == ParseFile

SpecParser == InitParser /\ [][NextParser]_vars

\* a project of several files, some of which do not parse, is analysed
InitAnalysis ==
  /\ \E n \in 0..MaxFiles :
       /\ files \in {fs \in [1..n -> UNION {PlainFileInfos(i) : i \in 1..n}] :
                       \A i \in 1..n : fs[i].path = i}
       /\ pc = IF n = 0 THEN "parsed" ELSE "parsing"
  /\ fileIndex = 1
  /\ NoAnalysis /\ NoScore /\ NoStyle /\ NoLayout /\ NoHook

NextAnalysis ==
  \/ ParseFile
  \/ BuildGraph

SpecAnalysis == InitAnalysis /\ [][NextAnalysis]_vars

----------------------------------------------------------------------------
(* Scoring: parseFile scores each unit from its five metrics.               *)

\* line counts below, at and above the 200 lines that cap the line score
LineCounts == {0, 1, 4, 100, 196, 200, 204, 1000}

\* counts below, at and above the caps of 5, 10 and 15
Counts == {0, 1, 5, 6, 10, 11, 15, 16}

CalculateComplexity ==
  /\ pc = "measured"
  /\ complexity' \in calculateComplexity(metrics)
  /\ pc' = "scored"
  /\ UNCHANGED <<components, graph, circularNodes, flowNodes, flowEdges, layouted,
                 request, related, metrics>>
  /\ UNCHANGED <<parserVars, styleVars, layoutVars, hookVars>>

InitComplexity ==
  /\ pc = "measured"
  /\ metrics \in [linesOfCode : LineCounts, dependencyCount : Counts, hooksCount : Counts,
                  propsCount : Counts, externalLibraryCount : Counts]
  /\ complexity = 0
  /\ NoAnalysis /\ NoFiles /\ NoStyle /\ NoLayout /\ NoHook

NextComplexity == CalculateComplexity

SpecComplexity == InitComplexity /\ [][NextComplexity]_vars

----------------------------------------------------------------------------
(* Presentation: a node is styled when the flow graph is built and shown or *)
(* hidden when the filter options are applied.                              *)

FilePaths ==
  [directories : {<<>>, <<"src", "app">>},
   stem : {"page", "layout", "route", "Button"},
   extension : {"tsx", "jsx", "ts", "js"}]

FlowNodeInputs ==
  [filePath : FilePaths, type : {"function", "hook"}, complexity : {0, 30, 31, 61, 81, 100},
   dependentCount : {0, 1}, hasCircularDep : BOOLEAN]

FilterInputs ==
  [complexityRange : {[min |-> 0, max |-> 100], [min |-> 31, max |-> 80]},
   componentTypes : {{}, {"hook"}}, fileExtensions : {{}, {"tsx", "ts"}},
   showUnused : BOOLEAN, showCircular : BOOLEAN]

StyleNode ==
  /\ pc = "unstyled"
  /\ style' = styleOf(flowNode)
  /\ pc' = "styled"
  /\ UNCHANGED <<components, graph, circularNodes, flowNodes, flowEdges, layouted,
                 request, related, flowNode, filterOptions, visible>>
  /\ UNCHANGED <<parserVars, scoreVars, layoutVars, hookVars>>

FilterNode ==
  /\ pc = "styled"
  /\ visible' = passesFilter(flowNode, style, filterOptions)
  /\ pc' = "filtered"
  /\ UNCHANGED <<components, graph, circularNodes, flowNodes, flowEdges, layouted,
                 request, related, flowNode, filterOptions, style>>
  /\ UNCHANGED <<parserVars, scoreVars, layoutVars, hookVars>>

InitPresentation ==
  /\ pc = "unstyled"
  /\ flowNode \in FlowNodeInputs
  /\ filterOptions \in FilterInputs
  /\ style = Unstyled
  /\ visible = TRUE
  /\ NoAnalysis /\ NoFiles /\ NoScore /\ NoLayout /\ NoHook

NextPresentation ==
  \/ StyleNode
  \/ FilterNode

SpecPresentation == InitPresentation /\ [][NextPresentation]_vars

----------------------------------------------------------------------------
(* The tree layout, one turn of its breadth-first loop at a time.           *)

InitLayout ==
  /\ pc = "levelling"
  /\ components = <<>>
  /\ graph = NoGraph
  /\ circularNodes = {}
  /\ \E n \in 0..MaxNodes : \E fg \in FlowGraphs(n) :
       /\ flowNodes = fg.nodes
       /\ flowEdges = fg.edges
       /\ layoutQueue = LET rootNodes == rootNodesOf(fg.nodes, fg.edges)
                        IN [i \in 1..Len(rootNodes) |-> [id |-> rootNodes[i].id, level |-> 0]]
  /\ layoutLevels = <<>>
  /\ layouted = <<>>
  /\ request = NoRequest
  /\ related = NoResult
  /\ NoFiles /\ NoScore /\ NoStyle /\ NoHook

\* while (queue.length > 0) { ... }
LevelStep ==
  /\ pc = "levelling"
  /\ layoutQueue # <<>>
  /\ LET s == levelStep(layoutQueue, layoutLevels, flowEdges)
     IN /\ layoutQueue' = s.queue
        /\ layoutLevels' = s.levels
  /\ UNCHANGED <<pc, components, graph, circularNodes, flowNodes, flowEdges, layouted,
                 request, related>>
  /\ UNCHANGED <<parserVars, scoreVars, styleVars, hookVars>>

\* return nodes.map((node) => ({...node, position}))
AssignPositions ==
  /\ pc = "levelling"
  /\ layoutQueue = <<>>
  /\ layouted' = [i \in 1..Len(flowNodes) |->
                    [id |-> flowNodes[i].id,
                     position |-> positionOf(layoutLevels, flowNodes[i].id)]]
  /\ pc' = "layouted"
  /\ UNCHANGED <<components, graph, circularNodes, flowNodes, flowEdges, request, related>>
  /\ UNCHANGED <<parserVars, scoreVars, styleVars, layoutVars, hookVars>>

NextLayout ==
  \/ LevelStep
  \/ AssignPositions

\* applyTreeLayout is one synchronous call: its loop is not held up
SpecLayout == InitLayout /\ [][NextLayout]_vars /\ WF_vars(NextLayout)

----------------------------------------------------------------------------
(* The scouter hook in the graph view.                                      *)

\* the graphs GraphView hands to the hook
ScouterGraphs(n) == {fg \in FlowGraphs(n) : Len(fg.edges) <= MaxEdges}

\* activateScouterMode(nodeId), called from the current render
ActivateScouterMode(nodeId) ==
  /\ pc = "mounted"
  /\ LET r == activateScouterMode(state, flowNodes, flowEdges, nodeId)
     IN /\ pending' = pending \o r.updates
        /\ lastCall' = [op |-> "activate", nodeId |-> nodeId, raised |-> r.raised,
                        notified |-> r.notified, rendered |-> state]
  /\ UNCHANGED <<pc, components, graph, circularNodes, flowNodes, flowEdges, layouted,
                 request, related, state, applied, replaced>>
  /\ UNCHANGED <<parserVars, scoreVars, styleVars, layoutVars>>

\* deactivateScouterMode(), called from the current render
DeactivateScouterMode ==
  /\ pc = "mounted"
  /\ LET r == deactivateScouterMode
     IN /\ pending' = pending \o r.updates
        /\ lastCall' = [op |-> "deactivate", nodeId |-> 0, raised |-> r.raised,
                        notified |-> r.notified, rendered |-> state]
  /\ UNCHANGED <<pc, components, graph, circularNodes, flowNodes, flowEdges, layouted,
                 request, related, state, applied, replaced>>
  /\ UNCHANGED <<parserVars, scoreVars, styleVars, layoutVars>>

\* toggleShowAllDescendants(), called from the current render
ToggleShowAllDescendants ==
  /\ pc = "mounted"
  /\ LET r == toggleShowAllDescendants
     IN /\ pending' = pending \o r.updates
        /\ lastCall' = [op |-> "toggle", nodeId |-> 0, raised |-> r.raised,
                        notified |-> r.notified, rendered |-> state]
  /\ UNCHANGED <<pc, components, graph, circularNodes, flowNodes, flowEdges, layouted,
                 request, related, state, applied, replaced>>
  /\ UNCHANGED <<parserVars, scoreVars, styleVars, layoutVars>>

\* React renders again: the queued updaters run, with the nodes and edges of
\* the render that made the callbacks.  An updater that throws takes the
\* component down.
Render ==
  /\ pc = "mounted"
  /\ pending # <<>>
  /\ LET r == applyUpdates(state, pending, flowNodes, flowEdges)
     IN IF r.thrown
        THEN pc' = "crashed" /\ UNCHANGED state
        ELSE state' = r.state /\ UNCHANGED pc
  /\ applied' = pending
  /\ pending' = <<>>
  /\ UNCHANGED <<components, graph, circularNodes, flowNodes, flowEdges, layouted,
                 request, related, lastCall, replaced>>
  /\ UNCHANGED <<parserVars, scoreVars, styleVars, layoutVars>>

\* the parent renders GraphView with other nodes and edges: the queued
\* updaters run as in any render, and the hook state is kept
ReplaceInputs(fg) ==
  /\ pc = "mounted"
  /\ <<fg.nodes, fg.edges>> # <<flowNodes, flowEdges>>
  /\ LET r == applyUpdates(state, pending, flowNodes, flowEdges)
     IN IF r.thrown
        THEN pc' = "crashed" /\ UNCHANGED state
        ELSE state' = r.state /\ UNCHANGED pc
  /\ applied' = IF pending = <<>> THEN applied ELSE pending
  /\ pending' = <<>>
  /\ flowNodes' = fg.nodes
  /\ flowEdges' = fg.edges
  /\ replaced' = replaced + 1
  /\ UNCHANGED <<components, graph, circularNodes, layouted, request, related, lastCall>>
  /\ UNCHANGED <<parserVars, scoreVars, styleVars, layoutVars>>

InitHook ==
  /\ pc = "mounted"
  /\ components = <<>>
  /\ graph = NoGraph
  /\ circularNodes = {}
  /\ \E n \in 0..MaxNodes : \E fg \in ScouterGraphs(n) :
       /\ flowNodes = fg.nodes
       /\ flowEdges = fg.edges
  /\ layouted = <<>>
  /\ request = NoRequest
  /\ related = NoResult
  /\ \E initialShowAllDescendants \in BOOLEAN :
       /\ state = initialState(initialShowAllDescendants)
       /\ lastCall = NoCall(initialState(initialShowAllDescendants))
  /\ pending = <<>>
  /\ applied = <<>>
  /\ replaced = 0
  /\ NoFiles /\ NoScore /\ NoStyle /\ NoLayout

\* every call is made after the update of the call before it was rendered
NextHook ==
  \/ pending = <<>> /\ \E nodeId \in 1..(Len(flowNodes) + 1) : ActivateScouterMode(nodeId)
  \/ pending = <<>> /\ DeactivateScouterMode
  \/ pending = <<>> /\ ToggleShowAllDescendants
  \/ Render

SpecHook == InitHook /\ [][NextHook]_vars

\* several callbacks of one render are called before React renders again
NextHookBatched ==
  \/ Len(pending) < MaxPending /\
       \E nodeId \in 1..(Len(flowNodes) + 1) : ActivateScouterMode(nodeId)
  \/ Len(pending) < MaxPending /\ DeactivateScouterMode
  \/ Len(pending) < MaxPending /\ ToggleShowAllDescendants
  \/ Render

SpecHookBatched == InitHook /\ [][NextHookBatched]_vars

\* the calls are interleaved with replacements of the nodes and edges
NextHookInputs ==
  \/ NextHook
  \/ replaced < MaxReplacements /\
       \E n \in 0..MaxNodes : \E fg \in ScouterGraphs(n) : ReplaceInputs(fg)

SpecHookInputs == InitHook /\ [][NextHookInputs]_vars

----------------------------------------------------------------------------
(* Graph notions the properties are stated in.  A relation is a set of      *)
(* pairs <<from, to>>.                                                      *)

\* the direct successors of the nodes in S
Succ(E, S) == {e[2] : e \in {d \in E : d[1] \in S}}

\* the nodes reached from S by zero or more edges
RECURSIVE ReachStar(_, _)
ReachStar(E, S) ==
  LET next == S \cup Succ(E, S)
  IN IF next = S THEN S ELSE ReachStar(E, next)

\* the nodes reached from a by one or more edges
ReachPlus(E, a) == ReachStar(E, Succ(E, {a}))

OnCycle(E, a) == a \in ReachPlus(E, a)

Acyclic(E) == \A e \in E : ~OnCycle(E, e[1])

\* the number of edges on the longest path leaving a, in an acyclic relation
RECURSIVE LongestChain(_, _)
LongestChain(E, a) ==
  LET below == {LongestChain(E, b) : b \in Succ(E, {a})}
  IN IF below = {} THEN 0 ELSE 1 + CHOOSE m \in below : \A k \in below : k <= m

\* the number of edges on a shortest path from the set S to a node of ReachStar(E, S)
RECURSIVE Distance(_, _, _)
Distance(E, S, a) ==
  IF a \in S THEN 0 ELSE 1 + Distance(E, S \cup Succ(E, S), a)

\* the relation of the built graph, read off the dependencies lists
DependencyRel ==
  UNION {{<<a, b>> : b \in Range(graph.nodes[a].dependencies)} : a \in DOMAIN graph.nodes}

\* the relation of the edge list of the built graph
EdgeRel == {<<graph.edges[i].from, graph.edges[i].to>> : i \in 1..Len(graph.edges)}

\* the relation of the displayed edges
FlowRel == {<<flowEdges[i].source, flowEdges[i].target>> : i \in 1..Len(flowEdges)}

FlowIds == {flowNodes[i].id : i \in 1..Len(flowNodes)}

\* the unit a dependency name resolves to: the last unit declared under it,
\* 0 when there is none
Resolve(name) ==
  LET named == {i \in 1..Len(components) : components[i].name = name}
  IN IF named = {} THEN 0 ELSE CHOOSE i \in named : \A j \in named : j <= i

\* the number of entries of unit a's dependency-name list that resolve to b
RefCount(a, b) ==
  Cardinality({k \in 1..Len(components[a].dependencies) :
                 Resolve(components[a].dependencies[k]) = b})

Built == pc \in {"built", "flow", "layouted"}

Converted == pc \in {"flow", "layouted"}

\* the nodes marked circular in the React Flow form
MarkedCircular == {flowNodes[i].id : i \in {j \in 1..Len(flowNodes) : flowNodes[j].hasCircularDep}}

\* the level the tree layout placed a node at, read off its y coordinate
LevelOf(id) ==
  LET n == layouted[CHOOSE i \in 1..Len(layouted) : layouted[i].id = id]
  IN (n.position.y - 50) \div LEVEL_HEIGHT

\* the nodes of the displayed graph with no incoming edge
FlowRoots == {id \in FlowIds : \A e \in FlowRel : e[2] # id}

----------------------------------------------------------------------------
(* Cycle detection *)

\* C1: after cycle detection every node on a directed dependency cycle is
\* marked circular, not only the node at which the DFS re-enters its stack.
C1_EveryCycleNodeMarked ==
  Converted => \A a \in DOMAIN graph.nodes : OnCycle(DependencyRel, a) => a \in MarkedCircular

----------------------------------------------------------------------------
(* Depths *)

\* C2: in a graph without cycles a node's depth is 0 when it has no resolved
\* dependency and otherwise 1 plus the greatest depth among its dependencies,
\* whatever the order of the units.
C2_DepthIsLongestChain ==
  (Built /\ Acyclic(DependencyRel)) =>
     \A a \in DOMAIN graph.nodes : graph.nodes[a].depth = LongestChain(DependencyRel, a)

----------------------------------------------------------------------------
(* Tree layout *)

\* C4: every node reachable from a root is placed at the level of its
\* shortest edge distance from the nearest root; reaching it again along a
\* longer path does not move it.
C4_LevelIsShortestDistance ==
  pc = "layouted" =>
     \A id \in ReachStar(FlowRel, FlowRoots) : LevelOf(id) = Distance(FlowRel, FlowRoots, id)

----------------------------------------------------------------------------
(* Graph construction *)

\* C5: a node's dependencies list holds every dependency id at most once.
C5_DependenciesUnique ==
  Built => \A a \in DOMAIN graph.nodes :
             \A i, j \in 1..Len(graph.nodes[a].dependencies) :
               graph.nodes[a].dependencies[i] = graph.nodes[a].dependencies[j] => i = j

\* C6: there is at most one edge per ordered pair (a, b), and its strength is
\* the number of entries of a's dependency-name list that resolve to b.
C6_OneEdgePerPairWithStrength ==
  Built =>
    /\ \A i, j \in 1..Len(graph.edges) :
         (graph.edges[i].from = graph.edges[j].from /\ graph.edges[i].to = graph.edges[j].to)
           => i = j
    /\ \A i \in 1..Len(graph.edges) :
         /\ graph.edges[i].strength = RefCount(graph.edges[i].from, graph.edges[i].to)
         /\ graph.edges[i].strength >= 1

\* a built graph in which two references collapsed into one edge of strength 2
C6_Witness ==
  /\ pc = "built"
  /\ \E i \in 1..Len(graph.edges) : graph.edges[i].strength = 2
  /\ \E i \in 1..Len(graph.edges) : graph.edges[i].strength = 1

\* C7: b is in a's dependencies iff an edge a->b exists iff a is in b's
\* dependents, and every id in a list or at an edge end is a key of the node map.
C7_ListsMirrorEdges ==
  Built =>
    /\ \A a, b \in DOMAIN graph.nodes :
         /\ (b \in Range(graph.nodes[a].dependencies)) <=> (<<a, b>> \in EdgeRel)
         /\ (<<a, b>> \in EdgeRel) <=> (a \in Range(graph.nodes[b].dependents))
    /\ \A a \in DOMAIN graph.nodes :
         /\ Range(graph.nodes[a].dependencies) \subseteq DOMAIN graph.nodes
         /\ Range(graph.nodes[a].dependents) \subseteq DOMAIN graph.nodes
    /\ \A e \in EdgeRel : e[1] \in DOMAIN graph.nodes /\ e[2] \in DOMAIN graph.nodes

\* a built graph with an edge a->b, mirrored in both lists, and a pair with no edge
C7_Witness ==
  /\ pc = "built"
  /\ \E a, b \in DOMAIN graph.nodes :
       /\ <<a, b>> \in EdgeRel
       /\ b \in Range(graph.nodes[a].dependencies)
       /\ a \in Range(graph.nodes[b].dependents)
       /\ <<b, a>> \notin EdgeRel
       /\ a \notin Range(graph.nodes[b].dependencies)

\* C8: no edge has from = to and no node lists its own id among its
\* dependencies or dependents.
C8_NoSelfEdges ==
  Built =>
    /\ \A i \in 1..Len(graph.edges) : graph.edges[i].from # graph.edges[i].to
    /\ \A a \in DOMAIN graph.nodes :
         /\ a \notin Range(graph.nodes[a].dependencies)
         /\ a \notin Range(graph.nodes[a].dependents)

\* a graph built from a list in which a unit names itself as a dependency
\* and two units share one name
C8_Witness ==
  /\ pc = "built"
  /\ \E a \in 1..Len(components) :
       \E k \in 1..Len(components[a].dependencies) :
         Resolve(components[a].dependencies[k]) = a
  /\ \E a, b \in 1..Len(components) : a # b /\ components[a].name = components[b].name
  /\ graph.edges # <<>>

----------------------------------------------------------------------------
(* Focused subgraph extraction *)

\* the ids of a node list
idsOf(ns) == {ns[i].id : i \in 1..Len(ns)}

Returned == request.called /\ ~related.thrown

\* C9: with showAllDescendants = true and an existing centre, dependencyNodes
\* is exactly the nodes other than the centre reachable from the centre by one
\* or more edges, and dependentNodes exactly the nodes other than the centre
\* from which the centre is reachable.
C9_TransitiveClosure ==
  (Returned /\ request.showAllDescendants) =>
    LET c == request.centerNodeId
        r == related.result[1]
    IN /\ idsOf(r.dependencyNodes) = (ReachPlus(FlowRel, c) \cap FlowIds) \ {c}
       /\ idsOf(r.dependentNodes) = {a \in FlowIds : c \in ReachPlus(FlowRel, a)} \ {c}
       /\ Len(r.dependencyNodes) = Cardinality(idsOf(r.dependencyNodes))
       /\ Len(r.dependentNodes) = Cardinality(idsOf(r.dependentNodes))

\* a closure taken on a cyclic graph that holds a dependency and a dependent
\* neither of which is a neighbour of the centre
C9_Witness ==
  /\ Returned /\ request.showAllDescendants
  /\ \E a \in FlowIds : OnCycle(FlowRel, a)
  /\ LET c == request.centerNodeId
         r == related.result[1]
     IN /\ \E a \in idsOf(r.dependencyNodes) : <<c, a>> \notin FlowRel
        /\ \E a \in idsOf(r.dependentNodes) : <<a, c>> \notin FlowRel

\* C10: with showAllDescendants = false and an existing centre, dependencyNodes
\* is exactly the targets of the edges leaving the centre, dependentNodes the
\* sources of the edges entering it, and relatedEdges the edges incident to it.
C10_DirectRelations ==
  (Returned /\ ~request.showAllDescendants) =>
    LET c == request.centerNodeId
        r == related.result[1]
    IN /\ idsOf(r.dependencyNodes) = {a \in FlowIds : <<c, a>> \in FlowRel}
       /\ idsOf(r.dependentNodes) = {a \in FlowIds : <<a, c>> \in FlowRel}
       /\ Range(r.relatedEdges) =
            {e \in Range(flowEdges) : e.source = c \/ e.target = c}

\* a one-hop extraction on a graph where a node lies two hops from the centre
\* and is left out
C10_Witness ==
  /\ Returned /\ ~request.showAllDescendants
  /\ LET c == request.centerNodeId
         r == related.result[1]
     IN /\ r.dependencyNodes # <<>>
        /\ r.dependentNodes # <<>>
        /\ \E a \in ReachPlus(FlowRel, c) \ {c} :
             a \notin idsOf(r.dependencyNodes) \cup idsOf(r.dependentNodes)

----------------------------------------------------------------------------
(* A centre that is no node *)

\* C11: a call whose centre id is the id of no node throws, whatever
\* showAllDescendants is, and hands no result back.
C11_MissingCentreThrows ==
  (request.called /\ request.centerNodeId \notin FlowIds) =>
     (related.thrown /\ related.result = <<>>)

\* a one-hop call on a graph that has nodes and edges, with a centre that is
\* none of them, has thrown
C11_Witness ==
  /\ request.called /\ ~request.showAllDescendants
  /\ request.centerNodeId \notin FlowIds
  /\ flowNodes # <<>> /\ flowEdges # <<>>
  /\ related.thrown

----------------------------------------------------------------------------
(* Name resolution *)

\* the resolved targets of unit a's dependency-name list, in list order:
\* unresolvable names and names that resolve to a itself are left out
ResolvedDependencies(a) ==
  LET deps == components[a].dependencies
      targets == [k \in 1..Len(deps) |-> Resolve(deps[k])]
      kept(b) == b # 0 /\ b # a
  IN SelectSeq(targets, kept)

\* C12: units that share a name are separate nodes, and every reference to
\* the name, from any unit, leads to the last unit declared under it.
C12_LastUnitOfANameWins ==
  Built =>
    /\ DOMAIN graph.nodes = 1..Len(components)
    /\ \A a \in 1..Len(components) :
         \A k \in 1..Len(components[a].dependencies) :
           LET b == Resolve(components[a].dependencies[k])
           IN (b # 0 /\ b # a) => <<a, b>> \in EdgeRel
    /\ \A e \in EdgeRel :
         \A j \in 1..Len(components) :
           components[j].name = components[e[2]].name => j <= e[2]

\* a graph built from two units of one name, where the earlier of the two and
\* a unit of another name both refer to that name and both reach the later one
C12_Witness ==
  /\ pc = "built"
  /\ \E a, b, c \in 1..Len(components) :
       /\ a < b
       /\ components[a].name = components[b].name
       /\ components[c].name # components[a].name
       /\ <<a, b>> \in EdgeRel
       /\ <<c, b>> \in EdgeRel

\* C14: building the graph completes for every unit list and returns a graph
\* with one node per unit, and a dependency name that matches no unit leaves
\* no trace: each node's dependencies are exactly the resolved references of
\* its unit, its dependents are exactly the units whose resolved references
\* name it, once per reference, and every edge joins a unit to one of its
\* resolved references.  It is stated of the graph as buildGraph returns it;
\* no later step writes to it.
C14_UnresolvedNamesDropped ==
  /\ pc = "parsed" => DOMAIN buildGraph(components).nodes = 1..Len(components)
  /\ pc = "built" =>
       LET resolved == [a \in 1..Len(components) |-> ResolvedDependencies(a)]
       IN /\ \A a \in DOMAIN graph.nodes :
               /\ graph.nodes[a].dependencies = resolved[a]
               /\ \A b \in DOMAIN graph.nodes :
                    Cardinality({k \in 1..Len(graph.nodes[a].dependents) :
                                   graph.nodes[a].dependents[k] = b})
                      = Cardinality({k \in 1..Len(resolved[b]) : resolved[b][k] = a})
          /\ \A i \in 1..Len(graph.edges) :
               /\ graph.edges[i].from \in DOMAIN graph.nodes
               /\ graph.edges[i].to \in Range(resolved[graph.edges[i].from])

\* a graph built from a list that holds a cycle and a name no unit carries
C14_Witness ==
  /\ pc = "built"
  /\ ~Acyclic(DependencyRel)
  /\ \E a \in 1..Len(components) :
       \E k \in 1..Len(components[a].dependencies) :
         Resolve(components[a].dependencies[k]) = 0

----------------------------------------------------------------------------
(* Tree layout: rows *)

\* the y coordinate the layout gave a node
YOf(id) == layouted[CHOOSE i \in 1..Len(layouted) : layouted[i].id = id].position.y

\* C16: every node with no incoming edge, an isolated node included, is at
\* y = 50; every node is on a row y = 50 + 200 * k; a node that has a level
\* above 0 sits one row below one of its parents; and the chain a -> b -> c
\* gets y = 50, 250, 450.
C16_RowsOfTheTree ==
  pc = "layouted" =>
    /\ \A id \in FlowRoots : YOf(id) = 50
    /\ \A id \in FlowIds :
         /\ \E k \in 0..Len(flowNodes) : YOf(id) = 50 + 200 * k
         /\ YOf(id) # 50 => \E e \in FlowRel : e[2] = id /\ YOf(id) = YOf(e[1]) + 200
    /\ \A a, b, c \in FlowIds :
         FlowRel = {<<a, b>>, <<b, c>>} /\ a # c =>
           (YOf(a) = 50 /\ YOf(b) = 250 /\ YOf(c) = 450)

\* a laid-out chain of three nodes
C16_Witness ==
  /\ pc = "layouted"
  /\ \E a, b, c \in FlowIds :
       /\ FlowRel = {<<a, b>>, <<b, c>>} /\ a # c
       /\ YOf(c) = 450

----------------------------------------------------------------------------
(* Cycle detection: soundness and sensitivity *)

\* C19: only nodes on a directed dependency cycle are marked circular, so a
\* graph with no cycle has no marked node.
C19_MarkedOnlyOnCycle ==
  Converted => \A a \in MarkedCircular : OnCycle(DependencyRel, a)

\* a converted graph with a cycle and, outside the cycle, a node that depends
\* on a node of the cycle and is not marked
C19_Witness ==
  /\ pc = "flow"
  /\ MarkedCircular # {}
  /\ \E e \in DependencyRel :
       /\ ~OnCycle(DependencyRel, e[1])
       /\ OnCycle(DependencyRel, e[2])
       /\ e[1] \notin MarkedCircular

\* C20: when the built graph has a directed cycle, at least one node is
\* marked circular, and never more nodes than there are.
C20_SomeCycleNodeMarked ==
  Converted =>
    /\ MarkedCircular \subseteq DOMAIN graph.nodes
    /\ Cardinality(MarkedCircular) <= Len(flowNodes)
    /\ ~Acyclic(DependencyRel) => MarkedCircular # {}

\* a converted graph whose DFS met the cycle from a node visited earlier
\* that is not on it, and marked some but not all nodes of a cycle
C20_Witness ==
  /\ pc = "flow"
  /\ \E a \in DOMAIN graph.nodes : OnCycle(DependencyRel, a) /\ a \notin MarkedCircular
  /\ MarkedCircular # {}

----------------------------------------------------------------------------
(* Parsing *)

\* C13: no unit the parser produces lists its own name among its dependency
\* names, be it from an import specifier or from a hook call in its body.
C13_NoOwnNameInDependencies ==
  \A i \in 1..Len(components) :
    components[i].name \notin Range(components[i].dependencies)

\* the ids of the units of the first k files, in file order and within a
\* file in declaration order: a file that does not parse has none
RECURSIVE ExpectedUnitIds(_)
ExpectedUnitIds(k) ==
  IF k = 0 THEN <<>>
  ELSE LET f == files[k]
           declared == [i \in 1..Len(f.declarations) |-> f.declarations[i].name]
           units == SelectSeq(declared, isPotentialComponent)
       IN ExpectedUnitIds(k - 1) \o
          (IF f.syntaxError THEN <<>>
           ELSE [i \in 1..Len(units) |-> unitId(f.path, units[i])])

----------------------------------------------------------------------------
(* Complexity *)

\* C17: for all non-negative integer metrics the complexity score is an
\* integer from 0 to 100.
C17_ComplexityInRange ==
  pc = "scored" => complexity \in 0..100

\* a score taken with every metric above its cap
C17_Witness ==
  /\ pc = "scored"
  /\ metrics.linesOfCode > 200
  /\ metrics.dependencyCount > 10 /\ metrics.hooksCount > 10
  /\ metrics.propsCount > 15 /\ metrics.externalLibraryCount > 5
  /\ complexity = 89

----------------------------------------------------------------------------
(* Root components *)

\* the node passes every filter but the unused filter
PassesOtherFilters ==
  /\ flowNode.complexity >= filterOptions.complexityRange.min
  /\ flowNode.complexity <= filterOptions.complexityRange.max
  /\ filterOptions.componentTypes # {} => flowNode.type \in filterOptions.componentTypes
  /\ filterOptions.fileExtensions # {} =>
       flowNode.filePath.extension \in filterOptions.fileExtensions
  /\ filterOptions.showCircular \/ ~flowNode.hasCircularDep

\* the node is one the unused filter would hide unless it is a root
UnusedAndFiltered == ~filterOptions.showUnused /\ flowNode.dependentCount = 0

\* C18 as stated: a node is a root exactly when its file name is page.*,
\* layout.* or route.* with any extension: it then has the root colour
\* (unless it is circular) and is exempt from the unused filter.
C18_RootByStem ==
  LET isRoot == flowNode.filePath.stem \in {"page", "layout", "route"}
  IN /\ (pc \in {"styled", "filtered"} /\ ~flowNode.hasCircularDep) =>
          (style.backgroundColor = "#8b5cf6" <=> isRoot)
     /\ (pc = "filtered" /\ PassesOtherFilters /\ UnusedAndFiltered) =>
          (visible <=> isRoot)

\* C18, amended: a node is a root exactly when its file name is page.tsx,
\* layout.tsx or route.ts: it then has the root colour (unless it is
\* circular) and is exempt from the unused filter.
C18_RootByFileName ==
  LET isRoot == <<flowNode.filePath.stem, flowNode.filePath.extension>> \in
                  {<<"page", "tsx">>, <<"layout", "tsx">>, <<"route", "ts">>}
  IN /\ (pc \in {"styled", "filtered"} /\ ~flowNode.hasCircularDep) =>
          (style.backgroundColor = "#8b5cf6" <=> isRoot)
     /\ (pc = "filtered" /\ PassesOtherFilters /\ UnusedAndFiltered) =>
          (visible <=> isRoot)

\* an unused page.jsx that is not coloured as a root and is hidden by the
\* unused filter
C18_Witness ==
  /\ pc = "filtered"
  /\ flowNode.filePath.stem = "page" /\ flowNode.filePath.extension = "jsx"
  /\ ~flowNode.hasCircularDep
  /\ PassesOtherFilters /\ UnusedAndFiltered
  /\ style.backgroundColor = "#9ca3af"
  /\ ~visible

----------------------------------------------------------------------------
(* The scouter hook *)

\* the ids extractRelatedNodes relates to a centre of the current graph
RelatedNodeIds(centerNodeId, showAllDescendants) ==
  LET r == extractRelatedNodes(centerNodeId, flowNodes, flowEdges, showAllDescendants).result[1]
  IN {r.centerNode.id} \cup idsOf(r.dependencyNodes) \cup idsOf(r.dependentNodes)

RelatedEdgeIds(centerNodeId, showAllDescendants) ==
  LET r == extractRelatedNodes(centerNodeId, flowNodes, flowEdges, showAllDescendants).result[1]
  IN idsOf(r.relatedEdges)

\* the last state update was rendered and the view is up
Settled == pc = "mounted" /\ pending = <<>>

\* the nodes shown that carry the centre highlight
Highlighted(shown) ==
  {shown[i].id : i \in {j \in 1..Len(shown) : "isScouterCenter" \in DOMAIN shown[j]}}

\* the kinds of the updates the last render ran
AppliedKinds == [i \in 1..Len(applied) |-> applied[i].kind]

\* C21: on a fixed graph, with every call made after the update before it was
\* rendered, whenever the mode is active the ids of filteredNodes are the
\* centre, the dependencyNodes and the dependentNodes, and the ids of
\* filteredEdges the relatedEdges, of extractRelatedNodes for the state's
\* centre under the state's showAllDescendants; a rendered activation on an
\* existing node makes that node the centre.
C21_VisibleIsExtraction ==
  /\ (pc = "mounted" /\ state.isActive) =>
       /\ state.centerNodeId \in FlowIds
       /\ idsOf(filteredNodes(state, flowNodes))
            = RelatedNodeIds(state.centerNodeId, state.showAllDescendants)
       /\ idsOf(filteredEdges(state, flowEdges))
            = RelatedEdgeIds(state.centerNodeId, state.showAllDescendants)
  /\ (Settled /\ lastCall.op = "activate" /\ lastCall.nodeId \in FlowIds) =>
       state.isActive /\ state.centerNodeId = lastCall.nodeId

\* an activation on another node was rendered, and a node of the previous
\* neighbourhood is gone from the view
C21_Witness ==
  /\ Settled
  /\ lastCall.op = "activate"
  /\ lastCall.rendered.isActive
  /\ lastCall.rendered.centerNodeId # lastCall.nodeId
  /\ state.centerNodeId = lastCall.nodeId
  /\ lastCall.rendered.visibleNodeIds \ idsOf(filteredNodes(state, flowNodes)) # {}
  /\ lastCall.rendered.visibleEdgeIds \ idsOf(filteredEdges(state, flowEdges)) # {}

\* C22: with the calls interleaved with replacements of the nodes and edges,
\* whenever the mode is active the centre is a node of the current node list,
\* filteredNodes holds it with the centre highlight, and the visible sets are
\* those of the current graph.
C22_CentreInCurrentInput ==
  (pc = "mounted" /\ state.isActive) =>
    /\ state.centerNodeId \in FlowIds
    /\ Highlighted(filteredNodes(state, flowNodes)) = {state.centerNodeId}
    /\ state.visibleNodeIds = RelatedNodeIds(state.centerNodeId, state.showAllDescendants)
    /\ state.visibleEdgeIds = RelatedEdgeIds(state.centerNodeId, state.showAllDescendants)

\* C23: when toggleShowAllDescendants and activateScouterMode(id) of one
\* render are both called before React renders again, in either order, the
\* state after the render is active on id with the visible sets of the
\* extraction for id under the showAllDescendants of that state.
C23_BatchedToggleAndActivate ==
  (Settled /\ AppliedKinds \in {<<"toggle", "activate">>, <<"activate", "toggle">>}) =>
    LET nodeId == IF applied[1].kind = "activate" THEN applied[1].centerNodeId
                  ELSE applied[2].centerNodeId
    IN /\ state.isActive
       /\ state.centerNodeId = nodeId
       /\ state.visibleNodeIds = RelatedNodeIds(nodeId, state.showAllDescendants)
       /\ state.visibleEdgeIds = RelatedEdgeIds(nodeId, state.showAllDescendants)

\* C24: the tree layout gives distinct nodes distinct (x, y) positions, for
\* every graph, also one with nodes that no root reaches.
C24_DistinctPositions ==
  pc = "layouted" =>
    \A i, j \in 1..Len(layouted) :
      i # j => layouted[i].position # layouted[j].position

\* C25: the tree layout terminates, and what it returns has exactly one
\* positioned node for every input node, in input order; cycles, graphs
\* without roots and nodes queued more than once included.
C25_TreeLayoutTerminates ==
  /\ <>(pc = "layouted")
  /\ [](pc = "layouted" =>
          /\ Len(layouted) = Len(flowNodes)
          /\ \A i \in 1..Len(flowNodes) :
               /\ layouted[i].id = flowNodes[i].id
               /\ layouted[i].position.x \in Int
               /\ layouted[i].position.y \in Int)

\* a graph with a cycle below its root was laid out
C25_Witness ==
  /\ pc = "layouted"
  /\ Len(layouted) = 3
  /\ FlowRoots # {}
  /\ \E a \in FlowIds : OnCycle(FlowRel, a) /\ mapHas(layoutLevels, a)

\* C26: activateScouterMode with an id that is the id of no node raises
\* nothing, does not call onModeChange and queues no state update: the hook
\* state stays as it was, an inactive mode stays inactive with no centre.
C26_UnknownIdChangesNothing ==
  (pc = "mounted" /\ lastCall.op = "activate" /\ lastCall.nodeId \notin FlowIds) =>
    /\ ~lastCall.raised
    /\ lastCall.notified = <<>>
    /\ pending = <<>>
    /\ state = lastCall.rendered
    /\ ~lastCall.rendered.isActive => (~state.isActive /\ state.centerNodeId = 0)

\* an unknown id was activated while the mode was active
C26_Witness ==
  /\ pc = "mounted"
  /\ lastCall.op = "activate"
  /\ lastCall.nodeId \notin FlowIds
  /\ lastCall.rendered.isActive
  /\ state.visibleEdgeIds # {}

C28_NoDanglingEdge ==
  (pc = "mounted" /\ state.isActive) =>
    LET shownEdges == filteredEdges(state, flowEdges)
        shownIds == idsOf(filteredNodes(state, flowNodes))
    IN \A i \in 1..Len(shownEdges) :
         shownEdges[i].source \in shownIds /\ shownEdges[i].target \in shownIds

\* with direct relations only, an edge between two shown nodes is hidden
C28_Witness ==
  /\ pc = "mounted"
  /\ state.isActive
  /\ ~state.showAllDescendants
  /\ Len(filteredEdges(state, flowEdges)) = 2
  /\ \E i \in 1..Len(flowEdges) :
       /\ flowEdges[i].id \notin state.visibleEdgeIds
       /\ flowEdges[i].source \in state.visibleNodeIds
       /\ flowEdges[i].target \in state.visibleNodeIds

\* C29: whenever the mode is inactive the centre is null and filteredNodes and
\* filteredEdges are the whole input lists with no node highlighted; a
\* rendered deactivation leaves the mode inactive and showAllDescendants as
\* it was.
C29_InactiveShowsAll ==
  /\ (pc = "mounted" /\ ~state.isActive) =>
       /\ state.centerNodeId = 0
       /\ filteredNodes(state, flowNodes) = flowNodes
       /\ filteredEdges(state, flowEdges) = flowEdges
       /\ Highlighted(filteredNodes(state, flowNodes)) = {}
  /\ (Settled /\ lastCall.op = "deactivate") =>
       /\ ~state.isActive
       /\ state.showAllDescendants = lastCall.rendered.showAllDescendants
       /\ lastCall.notified = <<FALSE>>

\* an active mode with direct relations only was deactivated
C29_Witness ==
  /\ Settled
  /\ lastCall.op = "deactivate"
  /\ lastCall.rendered.isActive
  /\ ~lastCall.rendered.showAllDescendants
  /\ Cardinality(lastCall.rendered.visibleNodeIds) < Len(flowNodes)

\* C30: in every state the calls reach, isActive holds exactly when
\* centerNodeId is not null, and an active mode has its centre among the
\* visible nodes.
C30_ActiveIffCentre ==
  pc = "mounted" =>
    /\ state.isActive <=> state.centerNodeId # 0
    /\ state.isActive =>
         /\ state.centerNodeId \in state.visibleNodeIds
         /\ state.centerNodeId \in idsOf(filteredNodes(state, flowNodes))

\* the mode is active on a node without edges, after another centre
C30_Witness ==
  /\ Settled
  /\ state.isActive
  /\ state.visibleNodeIds = {state.centerNodeId}
  /\ lastCall.op = "activate"
  /\ lastCall.rendered.isActive
  /\ lastCall.rendered.centerNodeId # state.centerNodeId

====
